---- MODULE Spec2Model ----
(***************************************************************************)
(* A model of httomolib/prep/phase.py: the three phase filters             *)
(* fresnel_filter, paganin_filter and retrieve_phase, one call at a time.  *)
(*                                                                         *)
(* Arrays are records [h, w, at] with at[r][c] zero-indexed like the       *)
(* source.  A pixel is a pair <<kind, val>>:                               *)
(*   "raw"  a finite intensity of integer value val                        *)
(*   "nlog" the finite number -log(val), val > 0                           *)
(*   "inf", "ninf", "nan"  the three non-finite floating point values      *)
(*   "filt", "expfilt", "pag", "padval"  finite numbers the model does not *)
(*          compute; val identifies what they were computed from           *)
(* Window and filter entries are exact rationals <<num, den>>.             *)
(* A Fourier transform is symbolic: a spectrum remembers the array it is   *)
(* the transform of, which frequency bin sits at each index, and the gain  *)
(* every bin has been multiplied by since the forward transform.           *)
(***************************************************************************)
EXTENDS Integers, Sequences, FiniteSets, TLC

\* ------------------------------------------------------------------ bounds
MaxDim == 3
MaxImages == 2
ExtraRows == 1
ExtraCols == 1
MaxDist == 2
MaxPad == 1

\* ------------------------------------------------------- program constants
top_drop == 10
MaxPadWidth == 150

\* ------------------------------------------------------------- arithmetic
Min(a, b) == IF a <= b THEN a ELSE b

Max(a, b) == IF a >= b THEN a ELSE b

\* ceil(a / b) for b > 0 and any integer a
CeilDiv(a, b) == -((-a) \div b)

Clamp(k, lo, hi) == Max(lo, Min(k, hi))

RECURSIVE Pow2(_)
Pow2(k) == IF k <= 0 THEN 1 ELSE 2 * Pow2(k - 1)

\* ceil(log2(x)) for an integer x >= 1: the least k with 2^k >= x
RECURSIVE CeilLog2From(_, _)
CeilLog2From(x, k) == IF Pow2(k) >= x THEN k ELSE CeilLog2From(x, k + 1)

CeilLog2(x) == CeilLog2From(x, 0)

\* ---------------------------------------------------------------- rationals
One == <<1, 1>>

RatOfInt(n) == <<n, 1>>

RatAdd(a, b) == <<a[1] * b[2] + b[1] * a[2], a[2] * b[2]>>

RatMul(a, b) == <<a[1] * b[1], a[2] * b[2]>>

RatDiv(a, b) == <<a[1] * b[2], a[2] * b[1]>>

RatSq(a) == RatMul(a, a)

RatEq(a, b) == a[1] * b[2] = b[1] * a[2]

IsOne(a) == a[2] # 0 /\ a[1] = a[2]

RatLe(a, b) == a[1] * b[2] <= b[1] * a[2]

RECURSIVE Gcd(_, _)
Gcd(a, b) == IF b = 0 THEN a ELSE Gcd(b, a % b)

\* a rational >= 0 in lowest terms
RatNorm(a) == LET g == Gcd(a[1], a[2]) IN IF g = 0 THEN a ELSE <<a[1] \div g, a[2] \div g>>

\* ------------------------------------------------------------------ pixels
Raw(v) == <<"raw", v>>

NaN == <<"nan", 0>>

PosInf == <<"inf", 0>>

NegInf == <<"ninf", 0>>

Kind(p) == p[1]

Val(p) == p[2]

IsFinite(p) == Kind(p) \notin {"nan", "inf", "ninf"}

\* -cp.log(x), element-wise
NegLog(p) ==
    CASE Kind(p) = "raw" /\ Val(p) > 0 -> <<"nlog", Val(p)>>
      [] Kind(p) = "raw" /\ Val(p) = 0 -> PosInf
      [] Kind(p) = "raw" /\ Val(p) < 0 -> NaN
      [] Kind(p) = "inf" -> NegInf
      [] OTHER -> NaN

\* cp.exp(-x), element-wise
ExpNeg(p) ==
    CASE Kind(p) = "nlog" -> Raw(Val(p))
      [] Kind(p) = "inf" -> Raw(0)
      [] Kind(p) = "ninf" -> PosInf
      [] Kind(p) = "nan" -> NaN
      [] OTHER -> <<"expfilt", Val(p)>>

\* ------------------------------------------------------------------ arrays
Arr(h, w, f) == [h |-> h, w |-> w, at |-> f]

EmptyArr == Arr(0, 0, [r \in {} |-> [c \in {} |-> NaN]])

MapArr(Op(_), a) ==
    Arr(a.h, a.w, [r \in 0..a.h - 1 |-> [c \in 0..a.w - 1 |-> Op(a.at[r][c])]])

\* a[r0:r1, c0:c1] with 0 <= r0 <= r1 <= a.h and 0 <= c0 <= c1 <= a.w
Crop(a, r0, r1, c0, c1) ==
    Arr(r1 - r0, c1 - c0,
        [r \in 0..r1 - r0 - 1 |-> [c \in 0..c1 - c0 - 1 |-> a.at[r + r0][c + c0]]])

\* Python's normalisation of a slice bound k on an axis of length n
SliceBound(k, n) == IF k < 0 THEN Max(n + k, 0) ELSE Min(k, n)

\* Python's normalisation of an index k on an axis of length n
NormIndex(k, n) == IF k < 0 THEN n + k ELSE k

\* cp.pad(a, ((top, bottom), (left, right)), mode="edge") of a non-empty array
EdgePad(a, top, bottom, left, right) ==
    Arr(a.h + top + bottom, a.w + left + right,
        [r \in 0..a.h + top + bottom - 1 |->
            [c \in 0..a.w + left + right - 1 |->
                a.at[Clamp(r - top, 0, a.h - 1)][Clamp(c - left, 0, a.w - 1)]]])

\* cp.pad raises ValueError on an empty axis that is to be extended
PadRaises(h, w, top, bottom, left, right) ==
    \/ h = 0 /\ (top # 0 \/ bottom # 0)
    \/ w = 0 /\ (left # 0 \/ right # 0)

\* cp.fft.fftshift on an axis of length n: the index the entry at k comes from
FftShiftSrc(k, n) == (k - (n \div 2)) % n

\* cp.fft.ifftshift on an axis of length n: the index the entry at k comes from
IfftShiftSrc(k, n) == (k + (n \div 2)) % n

fftshift2(a) ==
    Arr(a.h, a.w, [r \in 0..a.h - 1 |-> [c \in 0..a.w - 1 |->
        a.at[FftShiftSrc(r, a.h)][FftShiftSrc(c, a.w)]]])

ifftshift2(a) ==
    Arr(a.h, a.w, [r \in 0..a.h - 1 |-> [c \in 0..a.w - 1 |->
        a.at[IfftShiftSrc(r, a.h)][IfftShiftSrc(c, a.w)]]])

fftshift_axis1(a) ==
    Arr(a.h, a.w, [r \in 0..a.h - 1 |-> [c \in 0..a.w - 1 |->
        a.at[r][FftShiftSrc(c, a.w)]]])

ifftshift_axis1(a) ==
    Arr(a.h, a.w, [r \in 0..a.h - 1 |-> [c \in 0..a.w - 1 |->
        a.at[r][IfftShiftSrc(c, a.w)]]])

\* target[...] = src with numpy broadcasting: src.h is target.h or 1, same for w
Broadcastable(th, tw, src) == (src.h = th \/ src.h = 1) /\ (src.w = tw \/ src.w = 1)

Broadcast(th, tw, src) ==
    Arr(th, tw, [r \in 0..th - 1 |-> [c \in 0..tw - 1 |->
        src.at[IF src.h = 1 THEN 0 ELSE r][IF src.w = 1 THEN 0 ELSE c]]])

\* a stack of n images of h rows and w columns: img[m] is image m
Stack(n, h, w, f) == [n |-> n, h |-> h, w |-> w, img |-> f]

EmptyStack == Stack(0, 0, 0, [m \in {} |-> EmptyArr.at])

Image(s, m) == Arr(s.h, s.w, s.img[m])

SetImage(s, m, a) == [s EXCEPT !.img[m] = a.at]

MapStack(Op(_), s) ==
    Stack(s.n, s.h, s.w, [m \in 0..s.n - 1 |-> MapArr(Op, Image(s, m)).at])

\* cp.zeros((n, h, w))
Zeros(n, h, w) ==
    Stack(n, h, w, [m \in 0..n - 1 |-> [r \in 0..h - 1 |-> [c \in 0..w - 1 |-> Raw(0)]]])

\* ------------------------------------------------ symbolic Fourier transform
\* the set of pixel values of an array
Values(a) == {a.at[r][c] : r \in 0..a.h - 1, c \in 0..a.w - 1}

Row(a, r) == Arr(1, a.w, [x \in {0} |-> a.at[r]])

\* The transform of src: bin <<r, c>> sits at index [r][c], every gain is 1.
\* dim = 2: one 2D transform of the array (fft2); dim = 1: one 1D transform
\* per row (fft along the last axis).
Spectrum(src, dim) ==
    [src |-> src, dim |-> dim,
     bins |-> Arr(src.h, src.w, [r \in 0..src.h - 1 |-> [c \in 0..src.w - 1 |->
                  [k |-> <<r, c>>, g |-> One]]])]

fft2(a) == Spectrum(a, 2)

fft(a) == Spectrum(a, 1)

\* spectrum / w, element-wise, w an array of rationals of the same shape
SpecDiv(s, w) ==
    [s EXCEPT !.bins = Arr(s.src.h, s.src.w,
        [r \in 0..s.src.h - 1 |-> [c \in 0..s.src.w - 1 |->
            LET b == s.bins.at[r][c]
            IN [k |-> b.k, g |-> RatDiv(b.g, w.at[r][c])]]])]

\* spectrum * w, element-wise
SpecMul(s, w) ==
    [s EXCEPT !.bins = Arr(s.src.h, s.src.w,
        [r \in 0..s.src.h - 1 |-> [c \in 0..s.src.w - 1 |->
            LET b == s.bins.at[r][c]
            IN [k |-> b.k, g |-> RatMul(b.g, w.at[r][c])]]])]

SpecShift(Shift(_), s) == [s EXCEPT !.bins = Shift(s.bins)]

\* What the inverse transform of the rows `rows` of spectrum s, whose source is
\* `unit`, is: "nan" (NaN everywhere) if the source or a gain is not finite;
\* "same" (the source) if every bin is in place and every gain is 1, or if the
\* source is uniform (only its zero-frequency bin is non-zero) and that bin is
\* in place with gain 1; otherwise "filt", a filtered image the model does not
\* compute: its pixel <<"filt", v>> is the one filtered from the source pixel of
\* value v.
InverseKind(s, unit, rows) ==
    LET w == s.src.w
        r0 == CHOOSE rr \in rows : \A x \in rows : rr <= x
        \* of every bin: is it in place, is its gain finite, is its gain 1
        seen == {LET b == s.bins.at[rr][cc]
                 IN <<b.k = <<rr, cc>>, b.g[2] # 0, IsOne(b.g), rr = r0 /\ cc = 0>> :
                     rr \in rows, cc \in 0..w - 1}
        vals == Values(unit)
    IN  IF (\E p \in vals : ~IsFinite(p)) \/ \E b \in seen : ~b[2]
        THEN "nan"
        ELSE IF \A b \in seen : b[1] /\ b[3]
        THEN "same"
        ELSE IF Cardinality(vals) = 1 /\ \A b \in seen : b[4] => b[1] /\ b[3]
        THEN "same"
        ELSE "filt"

\* the inverse transform of the rows `rows` of s, whose source is `unit`
InverseRows(s, unit, rows) ==
    LET kind == InverseKind(s, unit, rows)
        w == s.src.w
    IN CASE kind = "nan" -> [r \in rows |-> [c \in 0..w - 1 |-> NaN]]
         [] kind = "same" -> [r \in rows |-> s.src.at[r]]
         [] OTHER -> [r \in rows |-> [c \in 0..w - 1 |-> <<"filt", Val(s.src.at[r][c])>>]]

\* cp.real(cp.fft.ifft2(s))
ifft2(s) == Arr(s.src.h, s.src.w, InverseRows(s, s.src, 0..s.src.h - 1))

\* cp.real(cp.fft.ifft(s)): row by row
ifft(s) ==
    Arr(s.src.h, s.src.w,
        [r \in 0..s.src.h - 1 |-> InverseRows(s, Row(s.src, r), {r})[r]])

\* ------------------------------------------------------------ fresnel window
\* the centre rounded down instead of up
center_floor(len) == (len - 1) \div 2

\* int(cp.ceil((len - 1) * 0.5))
center(len) == CeilDiv(len - 1, 2)

\* (1.0 * cp.arange(0, len) - center) / len
coordlist(len) == [j \in 0..len - 1 |-> <<j - center(len), len>>]

\* meshgrid's first result taken along the rows, like its second
meshgrid_u_rows(ulist, vlist) == [y \in DOMAIN vlist |-> [x \in DOMAIN ulist |-> vlist[y]]]

\* cp.meshgrid(ulist, vlist): u[i][j] = ulist[j], v[i][j] = vlist[i]
meshgrid_u(ulist, vlist) == [i \in DOMAIN vlist |-> [j \in DOMAIN ulist |-> ulist[j]]]

meshgrid_v(ulist, vlist) == [i \in DOMAIN vlist |-> [j \in DOMAIN ulist |-> vlist[i]]]

_make_window(height, width, ratio, pattern) ==
    IF pattern = "PROJECTION"
    THEN LET ulist == coordlist(width)
             vlist == coordlist(height)
             u == meshgrid_u(ulist, vlist)
             v == meshgrid_v(ulist, vlist)
         IN Arr(height, width, [i \in 0..height - 1 |-> [j \in 0..width - 1 |->
                RatAdd(One, RatMul(RatOfInt(ratio),
                                   RatAdd(RatSq(u[i][j]), RatSq(v[i][j]))))]])
    ELSE LET ulist == coordlist(width)
             win1d == [j \in 0..width - 1 |->
                          RatAdd(One, RatMul(RatOfInt(ratio), RatSq(ulist[j])))]
         IN Arr(height, width, [i \in 0..height - 1 |-> win1d])

\* min(150, int(0.1 * width1))
fresnel_pad_width(width1) == Min(MaxPadWidth, width1 \div 10)

\* the side of the result array without the min(): the padded side less one pad
res_side_padded(nrow, pad_width) == (nrow + pad_width * 2) - pad_width

\* min(nrow, padded_height - pad_width): a side of the result array
res_side(nrow, pad_width) == Min(nrow, (nrow + pad_width * 2) - pad_width)

\* a[r0:r1, c0:c1] with Python's clipping of the bounds
PySlice(a, r0, r1, c0, c1) ==
    LET ra == SliceBound(r0, a.h)
        rb == Max(ra, SliceBound(r1, a.h))
        ca == SliceBound(c0, a.w)
        cb == Max(ca, SliceBound(c1, a.w))
    IN Crop(a, ra, rb, ca, cb)

\* ------------------------------------------------------------------- state
VARIABLES
    fn,            \* the filter being called
    args,          \* its scalar arguments
    tomo,          \* the caller's array: [ndim, dtype, s], s its stack of images
    tomo0,         \* the caller's array as it was when the call was made
    pc,            \* "call", "loop", "done" (returned) or "raised"
    err,           \* the exception raised, if any
    mat,           \* fresnel_filter's mat after -log, paganin_filter's padded data
    window,        \* fresnel_filter's window, paganin_filter's filter1
    pad_width,     \* fresnel_filter's pad_width
    res,           \* the result array fresnel_filter and paganin_filter allocate
    i,             \* the loop index (i, or m in _retrieve_phase)
    prj,           \* retrieve_phase's padded work buffer
    py,            \* retrieve_phase's pad of the row axis
    pz,            \* retrieve_phase's pad of the column axis
    phase_filter,  \* _retrieve_phase's normalized_phase_filter
    ret            \* the array returned: [dtype, s, alias]

vars == <<fn, args, tomo, tomo0, pc, err, mat, window, pad_width, res, i, prj,
          py, pz, phase_filter, ret>>

NoError == [type |-> "", what |-> "", ndim |-> 0]

\* ValueError(f"Invalid number of dimensions in data: {ndim}, ...")
InvalidShape(ndim) == [type |-> "ValueError", what |-> "invalid number of dimensions", ndim |-> ndim]

ZeroDivision == [type |-> "ZeroDivisionError", what |-> "float division by zero", ndim |-> 0]

\* cp.pad's ValueError("can't extend empty axis ...")
EmptyAxis == [type |-> "ValueError", what |-> "can't extend empty axis", ndim |-> 0]

\* the ValueError of an assignment whose right side does not broadcast
ShapeMismatch == [type |-> "ValueError", what |-> "could not broadcast", ndim |-> 0]

NoReturn == [dtype |-> "", s |-> EmptyStack, alias |-> FALSE]

\* ------------------------------------------------------------------ inputs
Patterns == {"PROJECTION", "projection", "SINOGRAM"}

Ratios == {0, 2}

Contents == {"ramp", "uniform", "zero"}

\* a stack holding NaN, +Inf and -Inf pixels among finite ones
NonFinite == "nonfinite"

Dtypes == {"float32", "float64"}

Filters == {"fresnel_filter", "paganin_filter", "retrieve_phase"}

\* row counts on both sides of top_drop, column counts on both sides of the
\* first width that is padded
FresnelRows == {1, top_drop, top_drop + ExtraRows}

FresnelCols == {1, 10, 10 + ExtraCols}

\* pixel (r, c) of image m of an input stack
InputPixel(content, n, h, w, m, r, c) ==
    LET last == m = n - 1 /\ r = h - 1 /\ c = w - 1
        idx == (m * h + r) * w + c
    IN CASE content = "uniform" -> Raw(2)
         [] content = "zero" /\ last -> Raw(0)
         [] content = NonFinite /\ idx % 4 = 0 -> NaN
         [] content = NonFinite /\ idx % 4 = 1 -> PosInf
         [] content = NonFinite /\ idx % 4 = 2 -> NegInf
         [] OTHER -> Raw(1 + (m * h + r) * w + c)

InputStack(content, n, h, w) ==
    Stack(n, h, w, [m \in 0..n - 1 |-> [r \in 0..h - 1 |-> [c \in 0..w - 1 |->
        InputPixel(content, n, h, w, m, r, c)]]])

\* the arrays a caller passes: rank 2 (one image), rank 3, and the other ranks
InputArrays(rows, cols) ==
    {[ndim |-> 2, dtype |-> d, s |-> InputStack(k, 1, h, w)] :
        d \in Dtypes, k \in Contents, h \in rows, w \in cols}
    \cup
    {[ndim |-> 3, dtype |-> d, s |-> InputStack(k, n, h, w)] :
        d \in Dtypes, k \in Contents, n \in {1, MaxImages}, h \in rows, w \in cols}
    \cup
    {[ndim |-> nd, dtype |-> d, s |-> EmptyStack] : nd \in {0, 1, 4}, d \in Dtypes}

\* rank-3 arrays with non-finite pixels
NonFiniteArrays(rows, cols) ==
    {[ndim |-> 3, dtype |-> d, s |-> InputStack(NonFinite, n, h, w)] :
        d \in Dtypes, n \in {1, MaxImages}, h \in rows, w \in cols}

DefaultArgs ==
    [pattern |-> "PROJECTION", ratio |-> 0, apply_log |-> TRUE, energy |-> 1,
     dist |-> 1, pixel_size |-> 1, alpha |-> 1, pad |-> TRUE, pad_y |-> 0, pad_x |-> 0]

FresnelArgs ==
    {[DefaultArgs EXCEPT !.pattern = p, !.ratio = r, !.apply_log = l] :
        p \in Patterns, r \in Ratios, l \in BOOLEAN}

\* ------------------------------------------------------ shared: validation
\* if ndim == 2: expand_dims(..., 0)
Promoted(ndim) == IF ndim = 2 THEN 3 ELSE ndim

\* the rank check made before the promotion of a 2D array
RankRejected_unpromoted(ndim) == ndim # 3

\* if ndim != 3: raise ValueError
RankRejected(ndim) == Promoted(ndim) # 3

Raise(e) ==
    /\ pc' = "raised"
    /\ err' = e

\* ---------------------------------------------------------- fresnel_filter
\* cp.pad(window, pad_width, mode="edge")
projection_win_pad(win, p) == EdgePad(win, p, p, p, p)

\* cp.pad(window, ((0, 0), (pad_width, pad_width)), mode="edge")
generic_win_pad(win, p) == EdgePad(win, 0, 0, p, p)

\* cp.fft.fft2(mat_pad) / cp.fft.ifftshift(win_pad)
fresnel_projection_spectrum(mat_pad, win, p) ==
    SpecDiv(fft2(mat_pad), ifftshift2(projection_win_pad(win, p)))

\* cp.fft.ifftshift(cp.fft.fftshift(cp.fft.fft(mat_pad), axes=1) / win_pad, axes=1)
fresnel_generic_spectrum(mat_pad, win, p) ==
    SpecShift(ifftshift_axis1,
              SpecDiv(SpecShift(fftshift_axis1, fft(mat_pad)), generic_win_pad(win, p)))

\* one iteration of the loop, pattern == "PROJECTION": the filtered image
fresnel_projection(img, win, p) ==
    LET nrow == img.h
        ncol == img.w
        sub == PySlice(img, top_drop, nrow, 0, ncol)
        mat_pad == EdgePad(sub, p + top_drop, p, p, p)
        mat_dec == ifft2(fresnel_projection_spectrum(mat_pad, win, p))
    IN PySlice(mat_dec, p, p + nrow, p, p + ncol)

\* fresnel_generic with the crop taken from column 0 instead of pad_width
fresnel_generic_uncropped(img, win, p) ==
    LET ncol == img.w
        mat_pad == EdgePad(img, 0, 0, p, p)
        mat_dec == ifft(fresnel_generic_spectrum(mat_pad, win, p))
    IN PySlice(mat_dec, 0, img.h, 0, ncol)

\* one iteration of the loop, any other pattern: the filtered image
fresnel_generic(img, win, p) ==
    LET ncol == img.w
        mat_pad == EdgePad(img, 0, 0, p, p)
        mat_dec == ifft(fresnel_generic_spectrum(mat_pad, win, p))
    IN PySlice(mat_dec, 0, img.h, p, p + ncol)

fresnel_call ==
    /\ pc = "call"
    /\ fn = "fresnel_filter"
    /\ IF RankRejected(tomo.ndim)
       THEN /\ Raise(InvalidShape(Promoted(tomo.ndim)))
            /\ UNCHANGED <<mat, window, pad_width, res>>
       ELSE LET height1 == tomo.s.h
                width1 == tomo.s.w
                p == fresnel_pad_width(width1)
            IN /\ mat' = IF args.apply_log THEN MapStack(NegLog, tomo.s) ELSE tomo.s
               /\ window' = _make_window(height1, width1, args.ratio, args.pattern)
               /\ pad_width' = p
               /\ res' = Zeros(tomo.s.n, res_side(height1, p), res_side(width1, p))
               /\ pc' = "loop"
               /\ err' = err
    /\ UNCHANGED <<fn, args, tomo, tomo0, i, prj, py, pz, phase_filter, ret>>

fresnel_loop ==
    /\ pc = "loop"
    /\ fn = "fresnel_filter"
    /\ i < mat.n
    /\ LET img == Image(mat, i)
           projection == args.pattern = "PROJECTION"
       IN IF projection /\ PadRaises(img.h - SliceBound(top_drop, img.h), img.w,
                                     pad_width + top_drop, pad_width, pad_width, pad_width)
          THEN Raise(EmptyAxis) /\ UNCHANGED <<res, i>>
          ELSE LET mat_dec == IF projection
                              THEN fresnel_projection(img, window, pad_width)
                              ELSE fresnel_generic(img, window, pad_width)
               IN IF Broadcastable(res.h, res.w, mat_dec)
                  THEN /\ res' = SetImage(res, i, Broadcast(res.h, res.w, mat_dec))
                       /\ i' = i + 1
                       /\ UNCHANGED <<pc, err>>
                  ELSE Raise(ShapeMismatch) /\ UNCHANGED <<res, i>>
    /\ UNCHANGED <<fn, args, tomo, tomo0, mat, window, pad_width, prj, py, pz,
                   phase_filter, ret>>

fresnel_return ==
    /\ pc = "loop"
    /\ fn = "fresnel_filter"
    /\ i = mat.n
    /\ ret' = [dtype |-> "float32",
               s |-> IF args.apply_log THEN MapStack(ExpNeg, res) ELSE res,
               alias |-> FALSE]
    /\ pc' = "done"
    /\ UNCHANGED <<fn, args, tomo, tomo0, err, mat, window, pad_width, res, i, prj,
                   py, pz, phase_filter>>

\* ---------------------------------------------------------- paganin_filter
\* cp.nan_to_num: NaN becomes 0, the infinities the largest finite floats
nan_to_num(p) ==
    CASE Kind(p) = "nan" -> Raw(0)
      [] Kind(p) = "inf" -> <<"fmax", 0>>
      [] Kind(p) = "ninf" -> <<"fmin", 0>>
      [] OTHER -> p

\* proj[proj == 0] = 1.0
zero_to_one(p) == IF p = Raw(0) THEN Raw(1) ELSE p

\* cp.ceil(len1 / 2.0) - 1.0
paganin_center(len1) == CeilDiv(len1, 2) - 1

\* filter1 = 1.0 + ratio * pd on the padded grid; k = wavelength * distance * pi /
\* resolution^2 is the rational <<dist, energy * pixel_size^2>> in the model's units
paganin_filter1(height1, width1, ratio, k) ==
    LET centery == paganin_center(height1)
        centerx == paganin_center(width1)
        pxx == [r \in 0..height1 - 1 |-> [c \in 0..width1 - 1 |-> <<c - centerx, width1>>]]
        pyy == [r \in 0..height1 - 1 |-> [c \in 0..width1 - 1 |-> <<r - centery, height1>>]]
    IN Arr(height1, width1, [r \in 0..height1 - 1 |-> [c \in 0..width1 - 1 |->
           RatAdd(One, RatMul(RatOfInt(ratio),
               RatMul(RatAdd(RatSq(pxx[r][c]), RatSq(pyy[r][c])), k)))]])

\* -0.5 * ratio * cp.log(cp.abs(x) + increment): a finite number the model does
\* not compute, NaN where x is
paganin_log(p) == IF Kind(p) = "nan" THEN NaN ELSE <<"pag", Val(p)>>

\* proj = cp.nan_to_num(data[i]); proj[proj == 0] = 1.0
paganin_proj(img) == MapArr(zero_to_one, MapArr(nan_to_num, img))

\* cp.asarray(proj, dtype=cp.float32) of one pixel of an array of type dtype:
\* the largest float64 is beyond the float32 range and becomes an infinity
as_float32(dtype, p) ==
    CASE dtype = "float64" /\ Kind(p) = "fmax" -> PosInf
      [] dtype = "float64" /\ Kind(p) = "fmin" -> NegInf
      [] OTHER -> p

\* the array handed to the forward transform
paganin_transformed(img, dtype) ==
    LET proj == paganin_proj(img)
    IN Arr(proj.h, proj.w, [r \in 0..proj.h - 1 |-> [c \in 0..proj.w - 1 |->
           as_float32(dtype, proj.at[r][c])]])

\* one iteration of the loop: the filtered image, of the padded shape
paganin_image(img, filter1, dtype) ==
    LET proj == paganin_transformed(img, dtype)
        pci1 == fft2(proj)
        pci2 == SpecDiv(SpecShift(fftshift2, pci1), filter1)
        fpci == ifft2(pci2)
    IN MapArr(paganin_log, fpci)

paganin_call ==
    /\ pc = "call"
    /\ fn = "paganin_filter"
    /\ IF RankRejected(tomo.ndim)
       THEN /\ Raise(InvalidShape(Promoted(tomo.ndim)))
            /\ UNCHANGED <<mat, window, res>>
       ELSE IF args.energy = 0 \/ args.pixel_size = 0
       THEN \* 1240.0 / energy, 1.0 / (width1 * resolution)
            /\ Raise(ZeroDivision)
            /\ UNCHANGED <<mat, window, res>>
       ELSE LET height == tomo.s.h
                width == tomo.s.w
                height1 == height + 2 * args.pad_y
                width1 == width + 2 * args.pad_x
                k == <<args.dist, args.energy * args.pixel_size * args.pixel_size>>
            IN /\ window' = paganin_filter1(height1, width1, args.ratio, k)
               /\ mat' = Stack(tomo.s.n, height1, width1,
                               [m \in 0..tomo.s.n - 1 |->
                                   EdgePad(Image(tomo.s, m), args.pad_y, args.pad_y,
                                           args.pad_x, args.pad_x).at])
               /\ res' = Zeros(tomo.s.n, height, width)
               /\ pc' = "loop"
               /\ err' = err
    /\ UNCHANGED <<fn, args, tomo, tomo0, pad_width, i, prj, py, pz, phase_filter, ret>>

paganin_loop ==
    /\ pc = "loop"
    /\ fn = "paganin_filter"
    /\ i < mat.n
    /\ LET proj == paganin_image(Image(mat, i), window, tomo.dtype)
           part == PySlice(proj, args.pad_y, args.pad_y + res.h,
                           args.pad_x, args.pad_x + res.w)
       IN IF Broadcastable(res.h, res.w, part)
          THEN /\ res' = SetImage(res, i, Broadcast(res.h, res.w, part))
               /\ i' = i + 1
               /\ UNCHANGED <<pc, err>>
          ELSE Raise(ShapeMismatch) /\ UNCHANGED <<res, i>>
    /\ UNCHANGED <<fn, args, tomo, tomo0, mat, window, pad_width, prj, py, pz,
                   phase_filter, ret>>

paganin_return ==
    /\ pc = "loop"
    /\ fn = "paganin_filter"
    /\ i = mat.n
    /\ ret' = [dtype |-> "float32", s |-> res, alias |-> FALSE]
    /\ pc' = "done"
    /\ UNCHANGED <<fn, args, tomo, tomo0, err, mat, window, pad_width, res, i, prj,
                   py, pz, phase_filter>>

\* ---------------------------------------------------------- retrieve_phase
\* _wavelength(energy) = 2 * PI * PLANCK_CONSTANT * SPEED_OF_LIGHT / energy, a
\* rational in units that make the numerator 1; energy # 0
_wavelength(energy) == <<1, energy>>

\* cp.ceil(PI * wavelength * dist / pixel_size ** 2), PI taken into the unit
pad_pix(pixel_size, wavelength, dist) ==
    CeilDiv(wavelength[1] * dist, wavelength[2] * pixel_size * pixel_size)

\* int((pow(2, cp.ceil(cp.log2(dim + pad_pix))) - dim) * 0.5)
_calc_pad_width(dim, pixel_size, wavelength, dist) ==
    (Pow2(CeilLog2(dim + pad_pix(pixel_size, wavelength, dist))) - dim) \div 2

RECURSIVE SumEnds(_, _)
\* the sum over the linear row index k.. of tomo[..., 0] + tomo[..., -1]
SumEnds(s, k) ==
    IF k >= s.n * s.h THEN 0
    ELSE LET row == s.img[k \div s.h][k % s.h]
         IN Val(row[0]) + Val(row[s.w - 1]) + SumEnds(s, k + 1)

\* cp.mean((tomo[..., 0] + tomo[..., -1]) * 0.5): a number fixed by that sum
_calc_pad_val(s) == <<"padval", SumEnds(s, 0)>>

\* _reciprocal_coord(pixel_size, num_grid)[k], num_grid >= 2, pixel_size # 0
_reciprocal_coord(pixel_size, num_grid) ==
    LET n == num_grid - 1
    IN [k \in 0..num_grid - 1 |-> <<2 * k - n, 2 * n * pixel_size>>]

\* 0.5 / (n * pixel_size) raises ZeroDivisionError
_reciprocal_coord_raises(pixel_size, num_grid) == (num_grid - 1) * pixel_size = 0

_reciprocal_grid(pixel_size, nx, ny) ==
    LET indx == _reciprocal_coord(pixel_size, nx)
        indy == _reciprocal_coord(pixel_size, ny)
    IN Arr(nx, ny, [a \in 0..nx - 1 |-> [b \in 0..ny - 1 |->
           RatNorm(RatAdd(RatSq(indx[a]), RatSq(indy[b])))]])

\* the denominator of _paganin_filter_factor: wavelength * dist * w2 / (4 * PI)
\* + alpha, the positive constant 1 / (4 * PI * PI) taken as 1
filter_denominator(energy, dist, alpha, w2) ==
    MapArr(LAMBDA x : RatNorm(RatAdd(RatMul(RatMul(_wavelength(energy), RatOfInt(dist)), x),
                                     RatOfInt(alpha))), w2)

\* phase_filter / phase_filter.max() for phase_filter = 1 / den, den >= 0: where
\* den has a zero the maximum is infinite, every finite entry becomes 0 and
\* every infinite one NaN (<<0, 0>>)
normalized(den) ==
    LET all == Values(den)
        least == CHOOSE d \in all : \A e \in all : RatLe(d, e)
    IN IF least[1] = 0
       THEN MapArr(LAMBDA d : IF d[1] = 0 THEN <<0, 0>> ELSE <<0, 1>>, den)
       ELSE MapArr(LAMBDA d : RatNorm(RatDiv(least, d)), den)

\* a[r0:r0 + src.h, c0:c0 + src.w] = src
SetBlock(a, r0, c0, src) ==
    Arr(a.h, a.w, [r \in 0..a.h - 1 |-> [c \in 0..a.w - 1 |->
        IF r0 <= r /\ r < r0 + src.h /\ c0 <= c /\ c < c0 + src.w
        THEN src.at[r - r0][c - c0] ELSE a.at[r][c]]])

\* a[ra:rb] = a[k]
SetRows(a, ra, rb, k) ==
    Arr(a.h, a.w, [r \in 0..a.h - 1 |-> [c \in 0..a.w - 1 |->
        IF ra <= r /\ r < rb THEN a.at[k][c] ELSE a.at[r][c]]])

\* a[:, ca:cb] = a[:, k][:, newaxis]
SetCols(a, ca, cb, k) ==
    Arr(a.h, a.w, [r \in 0..a.h - 1 |-> [c \in 0..a.w - 1 |->
        IF ca <= c /\ c < cb THEN a.at[r][k] ELSE a.at[r][c]]])

\* fill_prj without the replication of the border into the pad cells
fill_prj_interior(buf, img, px, pyy) == SetBlock(buf, px, pyy, img)

\* the five assignments that fill the work buffer from image img
fill_prj(buf, img, px, pyy) ==
    LET dy == img.h
        dz == img.w
        b1 == SetBlock(buf, px, pyy, img)
        b2 == SetRows(b1, 0, SliceBound(px, b1.h), NormIndex(px, b1.h))
        b3 == SetRows(b2, SliceBound(-px, b2.h), b2.h, NormIndex(-px - 1, b2.h))
        b4 == SetCols(b3, 0, SliceBound(pyy, b3.w), NormIndex(pyy, b3.w))
    IN SetCols(b4, SliceBound(-pyy, b4.w), b4.w, NormIndex(-pyy - 1, b4.w))

retrieve_call ==
    /\ pc = "call"
    /\ fn = "retrieve_phase"
    /\ IF RankRejected(tomo.ndim)
       THEN /\ Raise(InvalidShape(Promoted(tomo.ndim)))
            /\ UNCHANGED <<py, pz, phase_filter, prj>>
       ELSE IF args.energy = 0 \/ (args.pad /\ args.pixel_size = 0)
       THEN \* _calc_pad: _wavelength, then _calc_pad_width when pad
            /\ Raise(ZeroDivision)
            /\ UNCHANGED <<py, pz, phase_filter, prj>>
       ELSE LET dy == tomo.s.h
                dz == tomo.s.w
                wavelength == _wavelength(args.energy)
                val == IF args.pad THEN _calc_pad_val(tomo.s) ELSE Raw(0)
                y == IF args.pad
                     THEN _calc_pad_width(dy, args.pixel_size, wavelength, args.dist)
                     ELSE 0
                z == IF args.pad
                     THEN _calc_pad_width(dz, args.pixel_size, wavelength, args.dist)
                     ELSE 0
            IN IF \/ _reciprocal_coord_raises(args.pixel_size, dy + 2 * y)
                  \/ _reciprocal_coord_raises(args.pixel_size, dz + 2 * z)
               THEN /\ Raise(ZeroDivision)
                    /\ UNCHANGED <<py, pz, phase_filter, prj>>
               ELSE LET w2 == _reciprocal_grid(args.pixel_size, dy + 2 * y, dz + 2 * z)
                        den == fftshift2(filter_denominator(args.energy, args.dist,
                                                            args.alpha, w2))
                    IN /\ py' = y
                       /\ pz' = z
                       /\ phase_filter' = normalized(den)
                       /\ prj' = Arr(dy + 2 * y, dz + 2 * z,
                                     [r \in 0..dy + 2 * y - 1 |->
                                         [c \in 0..dz + 2 * z - 1 |-> val]])
                       /\ pc' = "loop"
                       /\ err' = err
    /\ UNCHANGED <<fn, args, tomo, tomo0, mat, window, pad_width, res, i, ret>>

retrieve_loop ==
    /\ pc = "loop"
    /\ fn = "retrieve_phase"
    /\ i < tomo.s.n
    /\ LET dy == tomo.s.h
           dz == tomo.s.w
           filled == fill_prj(prj, Image(tomo.s, i), py, pz)
           fproj == SpecMul(fft2(filled), phase_filter)
           whole == ifft2(fproj)
           proj == IF args.pad THEN PySlice(whole, py, dy + py, pz, dz + pz) ELSE whole
       IN /\ prj' = filled
          /\ IF Broadcastable(dy, dz, proj)
             THEN /\ tomo' = [tomo EXCEPT !.s = SetImage(tomo.s, i, Broadcast(dy, dz, proj))]
                  /\ i' = i + 1
                  /\ UNCHANGED <<pc, err>>
             ELSE Raise(ShapeMismatch) /\ UNCHANGED <<tomo, i>>
    /\ UNCHANGED <<fn, args, tomo0, mat, window, pad_width, res, py, pz,
                   phase_filter, ret>>

retrieve_return ==
    /\ pc = "loop"
    /\ fn = "retrieve_phase"
    /\ i = tomo.s.n
    /\ ret' = [dtype |-> tomo.dtype, s |-> tomo.s, alias |-> TRUE]
    /\ pc' = "done"
    /\ UNCHANGED <<fn, args, tomo, tomo0, err, mat, window, pad_width, res, i, prj,
                   py, pz, phase_filter>>

\* ------------------------------------------------------------ specification
SmallDims == 1..MaxDim

PaganinArgs ==
    {[DefaultArgs EXCEPT !.ratio = r, !.energy = e, !.pixel_size = x,
                         !.pad_y = y, !.pad_x = z] :
        r \in {2}, e \in {0, 1}, x \in {0, 1}, y \in 0..MaxPad, z \in 0..MaxPad}

RetrieveArgs ==
    {[DefaultArgs EXCEPT !.energy = e, !.pixel_size = x, !.dist = d,
                         !.alpha = a, !.pad = p] :
        e \in {0, 1}, x \in {0, 1}, d \in 0..MaxDist, a \in {0, 1}, p \in BOOLEAN}

InitLocals ==
    /\ pc = "call"
    /\ err = NoError
    /\ mat = EmptyStack
    /\ window = EmptyArr
    /\ pad_width = 0
    /\ res = EmptyStack
    /\ i = 0
    /\ prj = EmptyArr
    /\ py = 0
    /\ pz = 0
    /\ phase_filter = EmptyArr
    /\ ret = NoReturn

Init ==
    /\ fn \in Filters
    /\ tomo \in CASE fn = "fresnel_filter" -> InputArrays(FresnelRows, FresnelCols)
                  [] fn = "paganin_filter" ->
                         InputArrays(SmallDims, SmallDims)
                             \cup NonFiniteArrays(SmallDims, SmallDims)
                  [] OTHER -> InputArrays(SmallDims, SmallDims)
    /\ args \in CASE fn = "fresnel_filter" -> FresnelArgs
                  [] fn = "paganin_filter" -> PaganinArgs
                  [] OTHER -> RetrieveArgs
    /\ tomo0 = tomo
    /\ InitLocals

Next ==
    \/ fresnel_call
    \/ fresnel_loop
    \/ fresnel_return
    \/ paganin_call
    \/ paganin_loop
    \/ paganin_return
    \/ retrieve_call
    \/ retrieve_loop
    \/ retrieve_return

Spec == Init /\ [][Next]_vars

\* ------------------------------------------- the window builder on its own
\* fresnel_filter's lines that build the window and the pad width, for image
\* sizes up to the cap of the pad width; the stack holds its shape only
WindowHeights == (1..MaxDim) \cup {top_drop + 1, top_drop + 2}

WindowWidths ==
    (1..MaxDim) \cup (9..11) \cup (19..21)
    \cup (10 * MaxPadWidth - 1 .. 10 * MaxPadWidth + 1)
    \cup {10 * MaxPadWidth + 10 + MaxDim}

ShapeOnly(h, w) == Stack(1, h, w, EmptyStack.img)

window_call ==
    /\ pc = "call"
    /\ fn = "fresnel_filter"
    /\ window' = _make_window(tomo.s.h, tomo.s.w, args.ratio, args.pattern)
    /\ pad_width' = fresnel_pad_width(tomo.s.w)
    /\ pc' = "loop"
    /\ UNCHANGED <<fn, args, tomo, tomo0, err, mat, res, i, prj, py, pz,
                   phase_filter, ret>>

InitWindow ==
    /\ fn = "fresnel_filter"
    /\ tomo \in {[ndim |-> 3, dtype |-> "float32", s |-> ShapeOnly(h, w)] :
                    h \in WindowHeights, w \in WindowWidths}
    /\ args \in {[DefaultArgs EXCEPT !.pattern = p, !.ratio = r] :
                    p \in Patterns, r \in 0..2}
    /\ tomo0 = tomo
    /\ InitLocals

NextWindow == window_call

SpecWindow == InitWindow /\ [][NextWindow]_vars

\* ------------------------------------------------------------------ claims
Returned == pc = "done"

\* the call got past the rank check and the set-up: it is in its loop or returned
Running == pc \in {"loop", "done"}

WellShaped(st) ==
    /\ DOMAIN st.img = 0..st.n - 1
    /\ \A m \in 0..st.n - 1 :
          /\ DOMAIN st.img[m] = 0..st.h - 1
          /\ \A r \in 0..st.h - 1 : DOMAIN st.img[m][r] = 0..st.w - 1

\* C1: every stack a filter returns has as many images as the promoted input
\* and the rows and columns of the un-padded input, and no image is ever
\* written into a result of another shape.
C1_ShapePreserved ==
    /\ Returned =>
          /\ ret.s.n = tomo0.s.n
          /\ ret.s.h = tomo0.s.h
          /\ ret.s.w = tomo0.s.w
          /\ WellShaped(ret.s)
    /\ err # ShapeMismatch

C1_Witness ==
    /\ Returned
    /\ fn = "fresnel_filter"
    /\ args.pattern = "PROJECTION"
    /\ pad_width > 0
    /\ tomo0.ndim = 2

\* C2: every stack a filter returns is single precision, whatever the input
\* precision.
C2_SinglePrecision == Returned => ret.dtype = "float32"

\* C3: a rank other than 2 or 3 raises the invalid-shape error naming that rank
\* before anything else is computed; rank 2 and rank 3 are never rejected, and
\* a rank-2 input is processed as a stack of exactly one image.
C3_RankCheck ==
    /\ (tomo0.ndim \notin {2, 3} /\ pc # "call") =>
          /\ pc = "raised"
          /\ err = InvalidShape(tomo0.ndim)
          /\ mat = EmptyStack /\ window = EmptyArr /\ res = EmptyStack
          /\ prj = EmptyArr /\ phase_filter = EmptyArr
          /\ i = 0 /\ tomo = tomo0 /\ ret = NoReturn
    /\ err.what = InvalidShape(0).what => tomo0.ndim \notin {2, 3}
    /\ (tomo0.ndim = 2 /\ Running) =>
          /\ tomo.s.n = 1
          /\ fn # "retrieve_phase" => mat.n = 1 /\ res.n = 1
          /\ Returned => i = 1 /\ ret.s.n = 1

C3_Witness ==
    /\ pc = "raised"
    /\ tomo0.ndim = 4
    /\ fn = "retrieve_phase"

\* C4: retrieve_phase leaves the caller's array as it was and returns another
\* buffer.
C4_InputUnchanged ==
    (Returned /\ fn = "retrieve_phase") => tomo = tomo0 /\ ~ret.alias

\* C5: a call with a rank-2 or rank-3 array raises nothing, whatever the scalar
\* arguments.
C5_OnlyInvalidShape == tomo0.ndim \in {2, 3} => pc # "raised"

AllPositive(st) ==
    \A m \in 0..st.n - 1 : \A r \in 0..st.h - 1 : \A c \in 0..st.w - 1 :
        Kind(st.img[m][r][c]) = "raw" /\ Val(st.img[m][r][c]) > 0

\* C6 as stated, on stacks of positive pixels: with ratio = 0 every pixel of
\* the result of fresnel_filter equals the input pixel at the same place, in
\* both branches.
C6_NoOpEverywhere ==
    (Returned /\ fn = "fresnel_filter" /\ args.ratio = 0 /\ AllPositive(tomo0.s)) =>
        \A m \in 0..ret.s.n - 1 : \A r \in 0..ret.s.h - 1 : \A c \in 0..ret.s.w - 1 :
            ret.s.img[m][r][c] = tomo0.s.img[m][r][c]

\* C6 as amended: with ratio = 0, on a stack whose pixels are positive when
\* apply_log is set, the result of the generic branch equals the input, and the
\* result of the "PROJECTION" branch equals the input from row top_drop on and
\* repeats row top_drop of the input in the rows above it; the "PROJECTION"
\* branch returns only for images of more than top_drop rows.
C6_NoOpBelowTopDrop ==
    /\ (Returned /\ fn = "fresnel_filter" /\ args.ratio = 0
          /\ (args.apply_log => AllPositive(tomo0.s))) =>
           \A m \in 0..ret.s.n - 1 : \A r \in 0..ret.s.h - 1 : \A c \in 0..ret.s.w - 1 :
               ret.s.img[m][r][c] =
                   tomo0.s.img[m][IF args.pattern = "PROJECTION" /\ r < top_drop
                                  THEN top_drop ELSE r][c]
    /\ (Returned /\ fn = "fresnel_filter" /\ args.pattern = "PROJECTION") =>
           tomo0.s.h > top_drop

C6_Witness ==
    /\ Returned
    /\ fn = "fresnel_filter"
    /\ args.ratio = 0
    /\ args.pattern = "PROJECTION"
    /\ args.apply_log
    /\ pad_width > 0
    /\ AllPositive(tomo0.s)
    /\ ret.s.img[0][0][0] # tomo0.s.img[0][0][0]
    /\ ret.s.img[0][top_drop][1] = tomo0.s.img[0][top_drop][1]

\* a blank array of the given shape, to take the transform of
Blank(h, w) == Arr(h, w, [r \in 0..h - 1 |-> [c \in 0..w - 1 |-> Raw(1)]])

\* C7: the entry of the padded window that divides the zero-frequency bin is
\* the centre of the window, and it is 1: in the "PROJECTION" branch the entry
\* at index (0, 0) after ifftshift, in the generic branch the entry at column
\* floor(padded_width / 2), where fftshift puts the zero frequency of each row.
C7_ZeroFrequencyDividedByOne ==
    (fn = "fresnel_filter" /\ pc = "loop") =>
        LET h == window.h
            w == window.w
            p == pad_width
            ch == CeilDiv(h - 1, 2)
            cw == CeilDiv(w - 1, 2)
            centre == window.at[ch][cw]
        IN /\ p = Min(MaxPadWidth, w \div 10)
           /\ IsOne(centre)
           /\ IF args.pattern = "PROJECTION"
              THEN LET shifted == ifftshift2(projection_win_pad(window, p))
                       s == fresnel_projection_spectrum(Blank(h + 2 * p, w + 2 * p),
                                                        window, p)
                   IN /\ IfftShiftSrc(0, h + 2 * p) = p + ch
                      /\ IfftShiftSrc(0, w + 2 * p) = p + cw
                      /\ shifted.at[0][0] = centre
                      /\ s.bins.at[0][0].k = <<0, 0>>
                      /\ IsOne(s.bins.at[0][0].g)
              ELSE LET win_pad == generic_win_pad(window, p)
                       mid == (w + 2 * p) \div 2
                       shifted == SpecShift(fftshift_axis1, fft(Blank(h, w + 2 * p)))
                       s == fresnel_generic_spectrum(Blank(h, w + 2 * p), window, p)
                   IN /\ mid = p + cw
                      /\ \A r \in {0, h - 1} :
                            /\ shifted.bins.at[r][mid].k = <<r, 0>>
                            /\ win_pad.at[r][mid] = centre
                            /\ s.bins.at[r][0].k = <<r, 0>>
                            /\ IsOne(s.bins.at[r][0].g)

C7_Witness ==
    /\ fn = "fresnel_filter"
    /\ pc = "loop"
    /\ args.pattern = "PROJECTION"
    /\ args.ratio = 2
    /\ pad_width = MaxPadWidth
    /\ window.w = 10 * MaxPadWidth
    /\ window.h = top_drop + 1

\* 1 + ratio * (u[j]^2 + v[i]^2) with u[j] = (j - ceil((width - 1) / 2)) / width
\* and v[i] = (i - ceil((height - 1) / 2)) / height, v left out when ~both
WindowFormula(height, width, ratio, x, j, both) ==
    LET a == j - CeilDiv(width - 1, 2)
        b == IF both THEN x - CeilDiv(height - 1, 2) ELSE 0
    IN <<width * width * height * height
           + ratio * (a * a * height * height + b * b * width * width),
         width * width * height * height>>

WindowIs(both) ==
    \A x \in 0..window.h - 1 : \A j \in 0..window.w - 1 :
        RatEq(window.at[x][j],
              WindowFormula(window.h, window.w, args.ratio, x, j, both))

WindowBuilt == fn = "fresnel_filter" /\ Running

\* C8 as stated: pattern = "projection" gives the window of both axes.
C8_LowercaseProjection ==
    (WindowBuilt /\ args.pattern = "projection") => WindowIs(TRUE)

\* C8 as amended: pattern = "PROJECTION" gives win[i,j] = 1 + ratio*(u[j]^2 +
\* v[i]^2), which varies along each axis longer than 1 when ratio # 0; any
\* other pattern, "projection" included, gives win[i,j] = 1 + ratio*u[j]^2,
\* every row equal to row 0.
C8_WindowByPattern ==
    WindowBuilt =>
        IF args.pattern = "PROJECTION"
        THEN /\ WindowIs(TRUE)
             /\ (args.ratio # 0 /\ window.h > 1) =>
                   ~RatEq(window.at[0][0], window.at[window.h \div 2][0])
             /\ (args.ratio # 0 /\ window.w > 1) =>
                   ~RatEq(window.at[0][0], window.at[0][window.w \div 2])
        ELSE /\ WindowIs(FALSE)
             /\ \A x \in 0..window.h - 1 : window.at[x] = window.at[0]

C8_Witness ==
    /\ WindowBuilt
    /\ args.pattern = "PROJECTION"
    /\ args.ratio # 0
    /\ window.h = top_drop + 1
    /\ window.w = 11
    /\ ~RatEq(window.at[1][0], window.at[0][0])
    /\ ~RatEq(window.at[0][1], window.at[0][0])

\* C9: the buffer handed to the forward transform in _retrieve_phase is the
\* edge-replicate padding of the image by the two pad widths, zero included.
C9_BufferIsEdgePadded ==
    (fn = "retrieve_phase" /\ Running /\ i > 0) =>
        prj = EdgePad(Image(tomo0.s, i - 1), py, py, pz, pz)

IsPow2(n) == n = Pow2(CeilLog2(n))

\* C10: with pad set, each padded side dim + 2 * pad of retrieve_phase is a
\* power of two and at least dim + s, s the kernel support in pixels.
C10_PaddedPowerOfTwo ==
    (fn = "retrieve_phase" /\ Running /\ args.pad) =>
        LET s == pad_pix(args.pixel_size, _wavelength(args.energy), args.dist)
        IN /\ IsPow2(tomo0.s.h + 2 * py) /\ tomo0.s.h + 2 * py >= tomo0.s.h + s
           /\ IsPow2(tomo0.s.w + 2 * pz) /\ tomo0.s.w + 2 * pz >= tomo0.s.w + s

\* a pixel as it enters the forward transform of paganin_filter
Entering(m, r, c) == paganin_transformed(Image(mat, m), tomo0.dtype).at[r][c]

\* C11: in paganin_filter every NaN, +Inf, -Inf and 0 pixel of a padded image
\* enters the forward transform as 1.0 and every finite non-zero pixel enters
\* it unchanged.
C11_ScrubbedToOne ==
    (fn = "paganin_filter" /\ Running) =>
        \A m \in 0..mat.n - 1 : \A r \in 0..mat.h - 1 : \A c \in 0..mat.w - 1 :
            LET p == mat.img[m][r][c]
            IN Entering(m, r, c) = IF IsFinite(p) /\ p # Raw(0) THEN p ELSE Raw(1)

\* what fresnel_filter returns for a stack holding image img alone
SoloFresnel(img) ==
    LET p == fresnel_pad_width(img.w)
        win == _make_window(img.h, img.w, args.ratio, args.pattern)
        x == IF args.apply_log THEN MapArr(NegLog, img) ELSE img
        mat_dec == IF args.pattern = "PROJECTION"
                   THEN fresnel_projection(x, win, p)
                   ELSE fresnel_generic(x, win, p)
        out == Broadcast(img.h, img.w, mat_dec)
    IN IF args.apply_log THEN MapArr(ExpNeg, out) ELSE out

\* what paganin_filter returns for a stack holding image img alone
SoloPaganin(img) ==
    LET k == <<args.dist, args.energy * args.pixel_size * args.pixel_size>>
        filter1 == paganin_filter1(img.h + 2 * args.pad_y, img.w + 2 * args.pad_x,
                                   args.ratio, k)
        padded == EdgePad(img, args.pad_y, args.pad_y, args.pad_x, args.pad_x)
        proj == paganin_image(padded, filter1, tomo0.dtype)
    IN Broadcast(img.h, img.w,
                 PySlice(proj, args.pad_y, args.pad_y + img.h,
                         args.pad_x, args.pad_x + img.w))

\* the pads and the filter of retrieve_phase, from the image shape and the
\* scalar arguments alone
SoloPad(dim) ==
    IF args.pad
    THEN _calc_pad_width(dim, args.pixel_size, _wavelength(args.energy), args.dist)
    ELSE 0

SoloPhaseFilter(dy, dz) ==
    normalized(fftshift2(filter_denominator(args.energy, args.dist, args.alpha,
        _reciprocal_grid(args.pixel_size, dy + 2 * SoloPad(dy), dz + 2 * SoloPad(dz)))))

\* the work buffer of retrieve_phase filled from image img alone, starting
\* from a buffer of zeros
SoloBuffer(img) ==
    LET y == SoloPad(img.h)
        z == SoloPad(img.w)
        zeros == Arr(img.h + 2 * y, img.w + 2 * z,
                     [r \in 0..img.h + 2 * y - 1 |-> [c \in 0..img.w + 2 * z - 1 |-> Raw(0)]])
    IN fill_prj(zeros, img, y, z)

\* what retrieve_phase returns for a stack holding image img alone, given the
\* filter
SoloRetrieve(img, filter) ==
    LET y == SoloPad(img.h)
        z == SoloPad(img.w)
        whole == ifft2(SpecMul(fft2(SoloBuffer(img)), filter))
        proj == IF args.pad THEN PySlice(whole, y, img.h + y, z, img.w + z) ELSE whole
    IN Broadcast(img.h, img.w, proj)

\* C12: output image m of each filter is what the filter gives for input image
\* m alone: the window, the pads and the filter shared by the loop come from
\* the image shape and the scalar arguments, each iteration of retrieve_phase
\* fills the whole reused buffer from its own image, whatever the fill value
\* and the earlier iterations left in it, and writes its result over image m
\* only, leaving the images not yet filtered as the caller passed them.
C12_ImageIndependence ==
    Running =>
        LET h == tomo0.s.h
            w == tomo0.s.w
        IN CASE fn = "fresnel_filter" ->
                  /\ window = _make_window(h, w, args.ratio, args.pattern)
                  /\ pad_width = fresnel_pad_width(w)
                  /\ Returned =>
                        \A m \in 0..ret.s.n - 1 :
                            Image(ret.s, m) = SoloFresnel(Image(tomo0.s, m))
               [] fn = "paganin_filter" ->
                  /\ \A m \in 0..i - 1 : Image(res, m) = SoloPaganin(Image(tomo0.s, m))
                  /\ Returned => ret.s = res
               [] OTHER ->
                  /\ py = SoloPad(h)
                  /\ pz = SoloPad(w)
                  /\ phase_filter = SoloPhaseFilter(h, w)
                  /\ i > 0 => prj = SoloBuffer(Image(tomo0.s, i - 1))
                  /\ \A m \in 0..i - 1 :
                        Image(tomo.s, m) = SoloRetrieve(Image(tomo0.s, m), phase_filter)
                  /\ \A m \in i..tomo.s.n - 1 : Image(tomo.s, m) = Image(tomo0.s, m)
                  /\ Returned => ret.s = tomo.s

C12_Witness ==
    /\ Returned
    /\ fn = "retrieve_phase"
    /\ args.pad
    /\ py > 0
    /\ pz > 0
    /\ tomo0.s.n > 1
    /\ Image(tomo0.s, 0) # Image(tomo0.s, 1)
    /\ Image(ret.s, 0) # Image(ret.s, 1)
    /\ \E c \in 0..prj.w - 1 : _calc_pad_val(tomo0.s) # prj.at[0][c]

\* C13: in paganin_filter the filter entry of zero frequency coordinates, at
\* index (ceil(height1/2) - 1, ceil(width1/2) - 1) and of value 1, is at the
\* index (floor(height1/2), floor(width1/2)) where fftshift puts the
\* zero-frequency bin of the image spectrum, so that bin is divided by it.
C13_FilterCentreOnZeroFrequency ==
    (fn = "paganin_filter" /\ Running) =>
        LET height1 == window.h
            width1 == window.w
            cy == paganin_center(height1)
            cx == paganin_center(width1)
            shifted == SpecShift(fftshift2, fft2(Image(mat, 0)))
            divided == SpecDiv(shifted, window)
        IN /\ IsOne(window.at[cy][cx])
           /\ shifted.bins.at[height1 \div 2][width1 \div 2].k = <<0, 0>>
           /\ cy = height1 \div 2
           /\ cx = width1 \div 2
           /\ divided.bins.at[cy][cx].k = <<0, 0>>
           /\ IsOne(divided.bins.at[height1 \div 2][width1 \div 2].g)

====
